---- MODULE Spec2Model ----
(***************************************************************************)
(* GetTogether: the form layer (events/forms.py) and the URL table         *)
(* (get_together/urls.py).                                                 *)
(*                                                                         *)
(* Time is counted in quarter hours.  A naive datetime is the integer      *)
(* day * QuartersPerDay + quarter-of-day, an aware datetime is a UTC       *)
(* instant on the same scale.  Strings that the code formats and parses    *)
(* are records that keep the format they were written in, so that a        *)
(* 12-hour string and a 24-hour string of the same time of day differ.     *)
(***************************************************************************)
EXTENDS Integers, Sequences, FiniteSets, TLC

VARIABLES current_tz, call, result

vars == <<current_tz, call, result>>

(***************************************************************************)
(* Bounds of the model.                                                    *)
(***************************************************************************)
NumDays == 2

QuartersPerHour == 60 \div 15
QuartersPerDay == 24 * QuartersPerHour

(***************************************************************************)
(* Time zones (pytz).  A zone is its standard and daylight offsets and the *)
(* UTC instants between which daylight time is in force.  Day 0 is the day *)
(* America/New_York springs forward (02:00 -> 03:00), day 1 the day it     *)
(* falls back (02:00 -> 01:00).                                            *)
(***************************************************************************)
TimeZones == {"UTC", "Asia/Kolkata", "America/New_York"}

pytz_timezone(name) ==
    CASE name = "UTC" ->
            [std |-> 0, dst |-> 0, dst_start |-> 0, dst_end |-> 0]
      [] name = "Asia/Kolkata" ->
            [std |-> 5 * QuartersPerHour + 2, dst |-> 5 * QuartersPerHour + 2,
             dst_start |-> 0, dst_end |-> 0]
      [] name = "America/New_York" ->
            [std |-> -5 * QuartersPerHour, dst |-> -4 * QuartersPerHour,
             dst_start |-> 2 * QuartersPerHour + 5 * QuartersPerHour,
             dst_end |-> QuartersPerDay + 2 * QuartersPerHour + 4 * QuartersPerHour]

\* tzinfo.utcoffset at a UTC instant
utcoffset(name, u) ==
    LET tz == pytz_timezone(name)
    IN  IF tz.dst_start <= u /\ u < tz.dst_end THEN tz.dst ELSE tz.std

\* The UTC instants whose wall clock in the zone reads the naive value n.
possible_loc_dt(name, n) ==
    LET tz == pytz_timezone(name)
    IN  {u \in {n - tz.std, n - tz.dst} : u + utcoffset(name, u) = n}

\* tz.localize(n, is_dst): is_dst is "False" (the default) or "None" (strict).
\* One candidate: that one.  None (a time skipped at the start of daylight
\* time) or two (a time repeated at its end): strict raises, the default
\* takes the standard-time reading.
localize(name, n, is_dst) ==
    LET tz == pytz_timezone(name)
        possible == possible_loc_dt(name, n)
    IN  IF Cardinality(possible) = 1
          THEN [ok |-> TRUE, instant |-> CHOOSE u \in possible : TRUE]
          ELSE IF is_dst = "None"
                 THEN [ok |-> FALSE, instant |-> 0]
                 ELSE [ok |-> TRUE, instant |-> n - tz.std]

\* django.utils.timezone.make_naive(value, timezone): the wall clock of the
\* instant in the given zone; the forms pass no zone, which means the
\* active one.
make_naive(u, name) == u + utcoffset(name, u)

\* pytz.utc.localize(n): the naive value labelled as UTC.
utc_localize(n) == n

(***************************************************************************)
(* Strings, time objects and struct_time.  A value is a record of one      *)
(* shape whose fmt says what it is: "None", free "text", a 12-hour string  *)
(* "%I:%M %p", a 24-hour string "%H:%M:%S", or a datetime.time object.     *)
(***************************************************************************)
Value(fmt, h, m, s, p) == [fmt |-> fmt, h |-> h, m |-> m, s |-> s, p |-> p]

None == Value("None", 0, 0, 0, "")
Text == Value("text", 0, 0, 0, "")
Str12(h, m, p) == Value("%I:%M %p", h, m, 0, p)
Str24(h, m, s) == Value("%H:%M:%S", h, m, s, "")
TimeObj(h, m, s) == Value("time", h, m, s, "")

struct_time(exc, h, m, s) == [exc |-> exc, tm_hour |-> h, tm_min |-> m, tm_sec |-> s]

\* time.strptime(value, fmt): TypeError for a value that is no string,
\* ValueError for a string that does not match the format.
strptime(value, fmt) ==
    IF value.fmt \in {"None", "time"} THEN struct_time("TypeError", 0, 0, 0)
    ELSE IF fmt = "%I:%M %p"
      THEN IF value.fmt = fmt /\ value.h \in 1..12 /\ value.m \in 0..59
                /\ value.p \in {"AM", "PM"}
             THEN struct_time("none",
                              (value.h % 12) + (IF value.p = "PM" THEN 12 ELSE 0),
                              value.m, 0)
             ELSE struct_time("ValueError", 0, 0, 0)
    ELSE IF fmt = "%H:%M:%S"
      THEN IF value.fmt = fmt /\ value.h \in 0..23 /\ value.m \in 0..59
                /\ value.s \in 0..61
             THEN struct_time("none", value.h, value.m, value.s)
             ELSE struct_time("ValueError", 0, 0, 0)
    ELSE struct_time("ValueError", 0, 0, 0)

\* strftime("%I", t), strftime("%p", t)
hour12(h) == IF h % 12 = 0 THEN 12 ELSE h % 12
meridian(h) == IF h < 12 THEN "AM" ELSE "PM"

\* time.strftime(fmt, t)
strftime(fmt, t) ==
    IF fmt = "%H:%M:%S" THEN Str24(t.tm_hour, t.tm_min, t.tm_sec)
    ELSE IF fmt = "%I:%M %p" THEN Str12(hour12(t.tm_hour), t.tm_min, meridian(t.tm_hour))
    ELSE Text

\* range(start, stop, step) as a sequence
range(start, stop, step) ==
    [i \in 1..((stop - start + step - 1) \div step) |-> start + (i - 1) * step]

RECURSIVE Flatten(_)
Flatten(seqs) == IF seqs = <<>> THEN <<>> ELSE Head(seqs) \o Flatten(Tail(seqs))

(***************************************************************************)
(* SimpleTimeWidget                                                        *)
(***************************************************************************)
\* __init__: the choices, in the order the three loops append them
SimpleTimeWidget_choices ==
    Flatten([mi \in 1..2 |->
      Flatten([hi \in 1..Len(range(0, 12, 1)) |->
        LET m == <<"AM", "PM">>[mi]
            hour0 == range(0, 12, 1)[hi]
            hour == IF hour0 = 0 THEN 12 ELSE hour0
        IN  [ni \in 1..Len(range(0, 60, 30)) |-> Str12(hour, range(0, 60, 30)[ni], m)]])])

\* value_from_datadict: [exc, value]
SimpleTimeWidget_value_from_datadict(value) ==
    LET t == strptime(value, "%I:%M %p")
    IN  IF t.exc # "none" THEN [exc |-> t.exc, value |-> None]
        ELSE [exc |-> "none", value |-> strftime("%H:%M:%S", t)]

(***************************************************************************)
(* TimeWidget                                                              *)
(***************************************************************************)
\* __init__: the choices of the three selects
TimeWidget_hours == [i \in 1..Len(range(0, 12, 1)) |-> range(0, 12, 1)[i] + 1]
TimeWidget_minutes == range(0, 60, 15)
TimeWidget_meridians == <<"AM", "PM">>

\* decompress: [exc, hour, minute, meridian]; a value that is neither a
\* string nor a time gives (None, None, None), written hour = -1.
TimeWidget_decompress(value) ==
    IF value.fmt \in {"text", "%I:%M %p", "%H:%M:%S"}
      THEN LET t1 == strptime(value, "%I:%M %p")
               t == IF t1.exc = "none" THEN t1 ELSE strptime(value, "%H:%M:%S")
           IN  IF t.exc # "none"
                 THEN [exc |-> t.exc, hour |-> -1, minute |-> -1, meridian |-> ""]
                 ELSE IF t.tm_hour < 12
                   THEN [exc |-> "none", hour |-> t.tm_hour, minute |-> t.tm_min,
                         meridian |-> "AM"]
                   ELSE [exc |-> "none", hour |-> t.tm_hour - 12, minute |-> t.tm_min,
                         meridian |-> "PM"]
    ELSE IF value.fmt = "time"
      THEN [exc |-> "none", hour |-> hour12(value.h), minute |-> value.m,
            meridian |-> meridian(value.h)]
    ELSE [exc |-> "none", hour |-> -1, minute |-> -1, meridian |-> ""]

\* value_from_datadict on the three submitted values: [exc, value]
TimeWidget_value_from_datadict(hour, minute, mer) ==
    LET t == strptime(Str12(hour, minute, mer), "%I:%M %p")
    IN  IF hour < 0 \/ minute < 0 THEN [exc |-> "TypeError", value |-> None]
        ELSE IF t.exc # "none" THEN [exc |-> t.exc, value |-> None]
        ELSE [exc |-> "none", value |-> strftime("%H:%M:%S", t)]

(***************************************************************************)
(* DateTimeWidget and the DateTimeField behind it                          *)
(***************************************************************************)
DateStr(day) == [fmt |-> "%Y-%m-%d", day |-> day]
NoneDate == [fmt |-> "None", day |-> 0]
TextDate == [fmt |-> "text", day |-> 0]

\* datetime.timetuple() of a naive datetime
timetuple(n) ==
    [exc |-> "none", tm_day |-> n \div QuartersPerDay,
     tm_hour |-> (n % QuartersPerDay) \div QuartersPerHour,
     tm_min |-> (n % QuartersPerHour) * 15, tm_sec |-> 0]

\* decompress of a datetime: the (date, time) pair the two sub-widgets show
DateTimeWidget_decompress(n) ==
    [date |-> DateStr(timetuple(n).tm_day),
     time |-> strftime("%I:%M %p", timetuple(n))]

\* decompress of no value
DateTimeWidget_decompress_none == [date |-> NoneDate, time |-> None]

\* value_from_datadict: the date as submitted, the time through
\* SimpleTimeWidget, the two joined by a blank: [exc, date, time]
DateTimeWidget_value_from_datadict(d) ==
    LET t == SimpleTimeWidget_value_from_datadict(d.time)
    IN  IF t.exc # "none" THEN [exc |-> t.exc, date |-> d.date, time |-> None]
        ELSE IF d.date.fmt = "None" THEN [exc |-> "TypeError", date |-> d.date, time |-> None]
        ELSE [exc |-> "none", date |-> d.date, time |-> t.value]

\* forms.DateTimeField.clean: parse "%Y-%m-%d %H:%M:%S", then make the
\* value aware in the active time zone (strict: a wall-clock time that zone
\* skips or repeats is a validation error): [valid, value]
DateTimeField_clean(v, active) ==
    IF v.date.fmt # "%Y-%m-%d" \/ strptime(v.time, "%H:%M:%S").exc # "none"
      THEN [valid |-> FALSE, value |-> 0]
      ELSE LET n == v.date.day * QuartersPerDay + v.time.h * QuartersPerHour
                    + v.time.m \div 15
               aware == localize(active, n, "None")
           IN  [valid |-> aware.ok, value |-> aware.instant]

\* The naive datetime a submitted (date, time) pair spells, when it spells one.
SpellsDateTime(d) ==
    d.date.fmt = "%Y-%m-%d" /\ strptime(d.time, "%I:%M %p").exc = "none"

NaiveOf(d) ==
    d.date.day * QuartersPerDay
    + strptime(d.time, "%I:%M %p").tm_hour * QuartersPerHour
    + strptime(d.time, "%I:%M %p").tm_min \div 15

(***************************************************************************)
(* The event model (events/models/events.py): the stored UTC times and the *)
(* zone, and the naive local readings the forms start from.                *)
(***************************************************************************)
Event(tz, saved, start, end) ==
    [tz |-> tz, saved |-> saved, start_time |-> start, end_time |-> end]

\* Event.local_start_time / local_end_time: the stored time on the wall
\* clock of the event's zone
local_start_time(instance) == make_naive(instance.start_time, instance.tz)
local_end_time(instance) == make_naive(instance.end_time, instance.tz)

Fields == <<"start_time", "end_time">>
EmptyDict == [k \in {} |-> 0]

(***************************************************************************)
(* TeamEventForm, NewTeamEventForm, NewEventForm                           *)
(***************************************************************************)
\* __init__: the initial values
TeamEventForm_init(instance) ==
    IF instance.saved
      THEN ("start_time" :> local_start_time(instance))
           @@ ("end_time" :> local_end_time(instance))
      ELSE EmptyDict

NewTeamEventForm_init(instance) ==
    IF instance.saved
      THEN ("start_time" :> local_start_time(instance))
           @@ ("end_time" :> local_end_time(instance))
      ELSE EmptyDict

NewEventForm_init(instance) ==
    IF instance.saved
      THEN ("start_time" :> local_start_time(instance))
           @@ ("end_time" :> local_end_time(instance))
      ELSE EmptyDict

\* One assignment of clean(): cleaned_data[key] = pytz.utc.localize(
\*   make_naive(event_tz.localize(make_naive(cleaned_data[key]))))
\* A missing key is a KeyError, and clean() stops there.
CleanKey(r, key, tz, active) ==
    IF r.raised # "none" THEN r
    ELSE IF key \notin DOMAIN r.cleaned_data
      THEN [r EXCEPT !.raised = "KeyError"]
      ELSE [r EXCEPT !.cleaned_data[key] =
              utc_localize(
                make_naive(
                  localize(tz, make_naive(r.cleaned_data[key], active), "False").instant,
                  active))]

TeamEventForm_clean(r, tz, active) ==
    CleanKey(CleanKey(r, "start_time", tz, active), "end_time", tz, active)

NewTeamEventForm_clean(r, tz, active) ==
    CleanKey(CleanKey(r, "start_time", tz, active), "end_time", tz, active)

\* A clean() that converts the start and leaves the end as the field gave it
NewEventForm_clean_start_only(r, tz, active) ==
    CleanKey(r, "start_time", tz, active)

NewEventForm_clean(r, tz, active) ==
    CleanKey(CleanKey(r, "start_time", tz, active), "end_time", tz, active)

EventForms == {"TeamEventForm", "NewTeamEventForm", "NewEventForm"}

form_init(form, instance) ==
    CASE form = "TeamEventForm" -> TeamEventForm_init(instance)
      [] form = "NewTeamEventForm" -> NewTeamEventForm_init(instance)
      [] form = "NewEventForm" -> NewEventForm_init(instance)

form_clean(form, r, tz, active) ==
    CASE form = "TeamEventForm" -> TeamEventForm_clean(r, tz, active)
      [] form = "NewTeamEventForm" -> NewTeamEventForm_clean(r, tz, active)
      [] form = "NewEventForm" -> NewEventForm_clean(r, tz, active)

\* BaseForm._clean_fields for one field: the widget's value_from_datadict
\* (an exception there leaves full_clean), then the field's clean (a
\* ValidationError becomes a field error and the key stays out).
clean_field(r, key, data, active) ==
    IF r.raised # "none" THEN r
    ELSE LET v == DateTimeWidget_value_from_datadict(data[key])
             c == DateTimeField_clean(v, active)
         IN  IF v.exc # "none" THEN [r EXCEPT !.raised = v.exc]
             ELSE IF c.valid
               THEN [r EXCEPT !.cleaned_data = (key :> c.value) @@ @]
               ELSE [r EXCEPT !.errors = @ \cup {key}]

\* BaseForm.full_clean: _clean_fields over the fields in order, then
\* _clean_form, which calls the form's clean().  field_data is what the
\* fields left, before clean() touched it.
full_clean(form, tz, data, active) ==
    LET r0 == [raised |-> "none", cleaned_data |-> EmptyDict, errors |-> {}]
        r2 == clean_field(clean_field(r0, "start_time", data, active),
                          "end_time", data, active)
        r3 == form_clean(form, r2, tz, active)
    IN  [op |-> "full_clean", raised |-> r3.raised, cleaned_data |-> r3.cleaned_data,
         errors |-> r3.errors, field_data |-> r2.cleaned_data,
         reached_clean |-> (r2.raised = "none")]

(***************************************************************************)
(* Inputs of the event forms                                               *)
(***************************************************************************)
Days == 0..(NumDays - 1)

SeqRange(q) == {q[i] : i \in DOMAIN q}

\* What a browser, or any client, may post for one DateTimeWidget: nothing,
\* a date with each choice of the time select, or text that is no date or
\* no time.
PostedDateTimes ==
    {[date |-> NoneDate, time |-> None]}
    \cup {[date |-> DateStr(d), time |-> c] : d \in Days, c \in SeqRange(SimpleTimeWidget_choices)}
    \cup {[date |-> TextDate, time |-> SimpleTimeWidget_choices[1]]}
    \cup {[date |-> DateStr(0), time |-> Text]}

\* The stored events: a zone, a start within the days of the model, an end
\* one hour or an hour and a half later.
EventDurations == {QuartersPerHour, QuartersPerHour + 2}

SavedEvents ==
    {Event(tz, TRUE, start, start + dur) :
        tz \in TimeZones, start \in 0..(NumDays * QuartersPerDay - 1), dur \in EventDurations}

Idle == [op |-> "idle"]

(***************************************************************************)
(* Operations.  A request is taken up when none is being handled (call is  *)
(* Idle) and ends with Finish.                                             *)
(***************************************************************************)
\* timezone.activate(tz) between requests
Activate ==
    /\ call = Idle
    /\ \E tz \in TimeZones \ {current_tz} : current_tz' = tz
    /\ UNCHANGED <<call, result>>

\* The response is sent; the form and its data go with the request.
Finish ==
    /\ call # Idle
    /\ call' = Idle
    /\ result' = Idle
    /\ UNCHANGED current_tz

\* POST of an event form bound to a new event of a team in zone tz
CreateEvent ==
    /\ call = Idle
    /\ \E form \in EventForms, tz \in TimeZones :
         \E s \in PostedDateTimes, e \in PostedDateTimes :
           LET data == [start_time |-> s, end_time |-> e]
           IN  /\ call' = [op |-> "create_event", form |-> form,
                           instance |-> Event(tz, FALSE, 0, 0), data |-> data]
               /\ result' = full_clean(form, tz, data, current_tz)
    /\ UNCHANGED current_tz

\* GET of the edit page of a stored event: __init__ fills initial, the
\* widgets decompress it
EditEvent ==
    /\ call = Idle
    /\ \E form \in EventForms, instance \in SavedEvents :
         LET initial == form_init(form, instance)
         IN  /\ call' = [op |-> "edit_event", form |-> form, instance |-> instance]
             /\ result' = [op |-> "render", initial |-> initial,
                           widgets |-> [k \in SeqRange(Fields) |->
                               IF k \in DOMAIN initial
                                 THEN DateTimeWidget_decompress(initial[k])
                                 ELSE DateTimeWidget_decompress_none]]
    /\ UNCHANGED current_tz

\* POST of the edit page as it was rendered, nothing changed
ResubmitEvent ==
    /\ call.op = "edit_event"
    /\ call' = [op |-> "resubmit_event", form |-> call.form,
                instance |-> call.instance, data |-> result.widgets]
    /\ result' = full_clean(call.form, call.instance.tz, result.widgets, current_tz)
    /\ UNCHANGED current_tz

EventInit ==
    /\ current_tz \in TimeZones
    /\ call = Idle
    /\ result = Idle

EventNext ==
    \/ Activate
    \/ CreateEvent
    \/ EditEvent
    \/ ResubmitEvent
    \/ Finish

EventSpec == EventInit /\ [][EventNext]_vars

(***************************************************************************)
(* Properties of the event forms                                           *)
(***************************************************************************)
\* The one UTC instant a naive datetime names in a zone, when there is one.
NamesOneInstant(tz, n) == Cardinality(possible_loc_dt(tz, n)) = 1
TheInstant(tz, n) == CHOOSE u \in possible_loc_dt(tz, n) : TRUE

\* C1: whatever the active time zone, clean() of the three event forms
\* returns, for each submitted start and end, the UTC instant that the
\* submitted wall-clock time names in the event's zone.
C1_CleanGivesUTCOfEventLocalTime ==
    (call.op = "create_event" /\ result.raised = "none" /\ result.errors = {})
    => \A k \in SeqRange(Fields) :
         (SpellsDateTime(call.data[k])
            /\ NamesOneInstant(call.instance.tz, NaiveOf(call.data[k])))
         => result.cleaned_data[k] = TheInstant(call.instance.tz, NaiveOf(call.data[k]))

\* The same with the active zone at UTC: there the conversion is right.
CleanGivesUTCWhenActiveIsUTC ==
    current_tz = "UTC" => C1_CleanGivesUTCOfEventLocalTime

\* C7: when a time field failed its own validation, clean() ends normally,
\* the form is invalid through the field's error, and the values the fields
\* cleaned are as they were.
C7_CleanEndsNormallyOnFieldError ==
    (call.op \in {"create_event", "resubmit_event"}
       /\ result.reached_clean /\ result.errors # {})
    => (result.raised = "none" /\ result.cleaned_data = result.field_data)

\* C8: an edit page posted back unchanged gives the stored UTC times again.
C8_EditRoundTrip ==
    call.op = "resubmit_event"
    => /\ result.raised = "none"
       /\ result.errors = {}
       /\ result.cleaned_data["start_time"] = call.instance.start_time
       /\ result.cleaned_data["end_time"] = call.instance.end_time

\* The same with the active zone at UTC and away from the hour a zone
\* repeats: there the round trip is exact.
EditRoundTripWhenUnambiguous ==
    (call.op = "resubmit_event" /\ current_tz = "UTC"
       /\ NamesOneInstant(call.instance.tz, local_start_time(call.instance))
       /\ NamesOneInstant(call.instance.tz, local_end_time(call.instance)))
    => C8_EditRoundTrip


\* C11: the three event forms handle the times alike.  Whatever form took a
\* request, each of the three gives, for the same event, the same initial
\* start_time and end_time in __init__, and, for the same event, submitted
\* values and active zone, the same cleaned start_time and end_time, the
\* same field errors and the same exception.
C11_EventFormsInterchangeable ==
    /\ call.op = "edit_event"
         => \A form \in EventForms : form_init(form, call.instance) = result.initial
    /\ call.op \in {"create_event", "resubmit_event"}
         => \A form \in EventForms :
              full_clean(form, call.instance.tz, call.data, current_tz) = result

\* A stored event was rendered by one form, and another form cleaned a
\* submission to two different instants.
C11_Witness ==
    \/ /\ call.op = "edit_event"
       /\ call.form = "NewTeamEventForm"
       /\ DOMAIN result.initial = SeqRange(Fields)
       /\ call.instance.tz = "America/New_York"
    \/ /\ call.op = "create_event"
       /\ call.form = "NewEventForm"
       /\ result.raised = "none"
       /\ result.errors = {}
       /\ result.cleaned_data["start_time"] # result.cleaned_data["end_time"]
       /\ result.cleaned_data # result.field_data

(***************************************************************************)
(* Lookup.  A Python value is its type and its str(); an attribute of a     *)
(* source object is plain or callable, and holds or returns a text, written *)
(* as the sequence of its parts.                                            *)
(***************************************************************************)
PyNone == [type |-> "NoneType", str |-> "None"]
PyInt(digits) == [type |-> "int", str |-> digits]
PyStr(text) == [type |-> "str", str |-> text]

Attr(text) == [callable |-> FALSE, returns |-> text]
Method(text) == [callable |-> TRUE, returns |-> text]

\* The models forms.py gives to Lookup(source=...), and the rows a table of
\* one of them may hold: an integer id, a name, and __str__.
LookupSources == {"City", "Place", "Country", "SPR"}
LookupIds == {"1", "2"}

SourceObject(source, id) ==
    ("id" :> Attr(<<id>>)) @@ ("name" :> Attr(<<source, id>>))
    @@ ("__str__" :> Method(<<source, id, "str">>))

SourceRows(source) == {SourceObject(source, id) : id \in LookupIds}

\* __init__(source, key="id", label="__str__")
Lookup_init(source, key, label) == [source |-> source, key |-> key, label |-> label]

\* The widgets forms.py builds: Lookup(source=X) and Lookup(source=X, label="name")
LookupWidgets ==
    {Lookup_init(source, "id", "__str__") : source \in {"City", "Place"}}
    \cup {Lookup_init(source, "id", "name") : source \in LookupSources}

\* int(value) of the integer field behind the key: [exc, digits]
int(value) ==
    IF value.type = "int" THEN [exc |-> "none", digits |-> value.str]
    ELSE IF value.type = "str" /\ value.str \in {"1", "2", "3"}
      THEN [exc |-> "none", digits |-> value.str]
    ELSE [exc |-> "ValueError", digits |-> ""]

\* source.objects.get(**{key: value}): the one row whose key is the value,
\* DoesNotExist when there is none, MultipleObjectsReturned when there are
\* several, ValueError when the value is no number: [exc, rows]
objects_get(rows, key, value) ==
    LET n == int(value)
        found == {o \in rows : o[key].returns = <<n.digits>>}
    IN  IF n.exc # "none" THEN [exc |-> n.exc, rows |-> {}]
        ELSE IF found = {} THEN [exc |-> "DoesNotExist", rows |-> {}]
        ELSE IF Cardinality(found) > 1 THEN [exc |-> "MultipleObjectsReturned", rows |-> {}]
        ELSE [exc |-> "none", rows |-> found]

\* '<option value="%s">%s</option>' % (value, label)
option(value, label) == [exc |-> "none", value |-> value, label |-> label]

\* An exception leaves format_value with nothing rendered
raises(exc) == [exc |-> exc, value |-> "", label |-> <<>>]

\* format_value(self, value), on the rows the source's table holds
Lookup_format_value(self, value, rows) ==
    IF value # PyNone
      THEN LET lookup_object == objects_get(rows, self.key, value)
           IN  IF lookup_object.exc # "none" THEN raises(lookup_object.exc)
               ELSE LET obj == CHOOSE o \in lookup_object.rows : TRUE
                    IN  IF self.label \notin DOMAIN obj THEN raises("AttributeError")
                        ELSE LET lookup_field == obj[self.label]
                                 lookup_value == lookup_field.returns
                             IN  option(value.str, lookup_value)
      ELSE option("", <<"--------">>)

\* What a form hands to format_value: nothing, the id of the initial or
\* posted object as a number or as posted text, the empty string of a field
\* left unfilled, text that is no number.
LookupValues ==
    {PyNone, PyStr(""), PyStr("x")}
    \cup {PyInt(id) : id \in LookupIds \cup {"3"}}
    \cup {PyStr(id) : id \in LookupIds \cup {"3"}}

\* A Lookup widget is rendered for a value
RenderLookup ==
    /\ call = Idle
    /\ \E self \in LookupWidgets, value \in LookupValues :
         \E rows \in SUBSET SourceRows(self.source) :
           /\ call' = [op |-> "render_lookup", self |-> self, value |-> value,
                       rows |-> rows]
           /\ result' = Lookup_format_value(self, value, rows)
    /\ UNCHANGED current_tz

(***************************************************************************)
(* The time widgets on their own                                           *)
(***************************************************************************)
Seconds == {0, 30}

\* Every time of day, as a time object, as a 24-hour string and, for whole
\* minutes, as a 12-hour string.
TimeValues ==
    {TimeObj(h, m, sec) : h \in 0..23, m \in 0..59, sec \in Seconds}
    \cup {Str24(h, m, sec) : h \in 0..23, m \in 0..59, sec \in Seconds}
    \cup {Str12(hour12(h), m, meridian(h)) : h \in 0..23, m \in 0..59}

\* What may be posted for the time select: a choice, nothing, text that is
\* no time, a 24-hour string, a 12-hour string with an hour of 0 or 13.
PostedTimes ==
    SeqRange(SimpleTimeWidget_choices)
    \cup {None, Text, Str24(13, 0, 0), Str12(0, 0, "AM"), Str12(13, 0, "PM"),
          Str12(10, 15, "AM")}

\* A TimeWidget is rendered for a value: decompress
RenderTime ==
    /\ call = Idle
    /\ \E value \in TimeValues \cup {None, Text} :
         /\ call' = [op |-> "render_time", value |-> value]
         /\ result' = TimeWidget_decompress(value)
    /\ UNCHANGED current_tz

\* The three values it showed are posted back: value_from_datadict
ResubmitTime ==
    /\ call.op = "render_time"
    /\ result.exc = "none"
    /\ call' = [op |-> "resubmit_time", value |-> call.value, shown |-> result]
    /\ result' = TimeWidget_value_from_datadict(result.hour, result.minute, result.meridian)
    /\ UNCHANGED current_tz

\* A SimpleTimeWidget takes a posted value: value_from_datadict
PostSimpleTime ==
    /\ call = Idle
    /\ \E value \in PostedTimes :
         /\ call' = [op |-> "post_simple_time", value |-> value]
         /\ result' = SimpleTimeWidget_value_from_datadict(value)
    /\ UNCHANGED current_tz

WidgetInit ==
    /\ current_tz = "UTC"
    /\ call = Idle
    /\ result = Idle

WidgetNext ==
    \/ RenderTime
    \/ ResubmitTime
    \/ PostSimpleTime
    \/ RenderLookup
    \/ Finish

WidgetSpec == WidgetInit /\ [][WidgetNext]_vars

\* The hour of the day, 0..23, that a time value names
Hour24(value) ==
    IF value.fmt = "%I:%M %p"
      THEN (value.h % 12) + (IF value.p = "PM" THEN 12 ELSE 0)
      ELSE value.h

IsTimeOfDay(value) == value.fmt \in {"time", "%H:%M:%S", "%I:%M %p"}

\* C9: for every time of day (taken to the minute), decompress gives an
\* hour of the hour select (1..12) and AM or PM, the same triple for the
\* time object and for its strings, and value_from_datadict of the triple
\* gives the time back as a 24-hour string without raising.
C9_TimeWidgetRoundTrip ==
    (call.op = "resubmit_time" /\ IsTimeOfDay(call.value) /\ call.value.s = 0)
    => /\ call.shown.hour \in SeqRange(TimeWidget_hours)
       /\ call.shown.meridian \in SeqRange(TimeWidget_meridians)
       /\ call.shown = TimeWidget_decompress(TimeObj(Hour24(call.value), call.value.m, 0))
       /\ result.exc = "none"
       /\ result.value = Str24(Hour24(call.value), call.value.m, 0)

\* The same for time objects alone: there the round trip holds.
TimeObjectRoundTrip ==
    call.op = "resubmit_time" /\ call.value.fmt = "time" /\ call.value.s = 0
    => C9_TimeWidgetRoundTrip

\* The choices are the 48 half hours of the day in order, and
\* value_from_datadict takes the i-th to the i-th half hour in 24-hour form.
SimpleTimeChoicesAreTheHalfHours ==
    /\ Len(SimpleTimeWidget_choices) = 48
    /\ SimpleTimeWidget_choices[1] = Str12(12, 0, "AM")
    /\ SimpleTimeWidget_choices[48] = Str12(11, 30, "PM")
    /\ \A i \in DOMAIN SimpleTimeWidget_choices :
         SimpleTimeWidget_value_from_datadict(SimpleTimeWidget_choices[i])
           = [exc |-> "none",
              value |-> Str24(((i - 1) * 30) \div 60, ((i - 1) * 30) % 60, 0)]

\* C10: SimpleTimeWidget offers the 48 half hours in order, maps them one
\* to one onto '00:00:00' .. '23:30:00', and a value that is absent or not
\* of the form 'HH:MM AM/PM' does not raise.
C10_SimpleTimeWidget ==
    /\ SimpleTimeChoicesAreTheHalfHours
    /\ call.op = "post_simple_time" => result.exc = "none"

\* The rows of the table whose key reads as the value does
RowsWithKey(self, value, rows) ==
    {o \in rows : o[self.key].returns = <<value.str>>}

\* The label the widget is configured to show for a row
LabelOf(self, o) == o[self.label].returns

\* C12: format_value renders one option for every value and never raises:
\* the placeholder for None, the option of the value and the configured
\* label of the source object with that key when there is one, and the
\* placeholder again for any other value, the empty string included.
C12_LookupFormatValue ==
    call.op = "render_lookup"
    => /\ result.exc = "none"
       /\ IF call.value = PyNone
            THEN result = option("", <<"--------">>)
            ELSE IF RowsWithKey(call.self, call.value, call.rows) # {}
              THEN \E o \in RowsWithKey(call.self, call.value, call.rows) :
                     result = option(call.value.str, LabelOf(call.self, o))
              ELSE result = option("", <<"--------">>)

\* The same for None and for a value that is the key of a source object:
\* there format_value renders as said.
LookupRendersKnownValues ==
    (call.op = "render_lookup"
       /\ (call.value = PyNone \/ RowsWithKey(call.self, call.value, call.rows) # {}))
    => C12_LookupFormatValue

\* A value that matches no source object leaves format_value by an exception
LookupRaisesOnUnknownValue ==
    (call.op = "render_lookup" /\ call.value # PyNone
       /\ RowsWithKey(call.self, call.value, call.rows) = {})
    => result.exc \in {"DoesNotExist", "ValueError"}

(***************************************************************************)
(* MultiEmailField.  Text is a sequence of characters.                     *)
(***************************************************************************)
MaxChunks == 4

\* The text posted for the field: up to MaxChunks pieces of text, each a
\* whole address, a comma, a blank or a lone character.
Chunks == {<<"a", "@", "a", ".", "a", "a">>, <<",">>, <<" ">>, <<"a">>, <<"@">>, <<".">>}

RECURSIVE TextsOf(_)
TextsOf(n) ==
    IF n = 0 THEN {<<>>}
    ELSE LET shorter == TextsOf(n - 1)
         IN  shorter \cup {t \o c : t \in shorter, c \in Chunks}

\* str.split(sep): the pieces between the separators, in order
RECURSIVE split(_, _)
split(text, sep) ==
    IF \A i \in DOMAIN text : text[i] # sep THEN <<text>>
    ELSE LET i == CHOOSE j \in DOMAIN text :
                    text[j] = sep /\ \A k \in 1..(j - 1) : text[k] # sep
         IN  <<SubSeq(text, 1, i - 1)>> \o split(SubSeq(text, i + 1, Len(text)), sep)

\* str.strip(): without the blanks at either end
RECURSIVE lstrip(_)
lstrip(text) ==
    IF text # <<>> /\ Head(text) = " " THEN lstrip(Tail(text)) ELSE text

RECURSIVE rstrip(_)
rstrip(text) ==
    IF text # <<>> /\ text[Len(text)] = " "
      THEN rstrip(SubSeq(text, 1, Len(text) - 1)) ELSE text

strip(text) == rstrip(lstrip(text))

\* str.rsplit("@", 1) of a text that holds an "@"
rsplit_at(text) ==
    LET i == CHOOSE j \in DOMAIN text :
               text[j] = "@" /\ \A k \in (j + 1)..Len(text) : text[k] # "@"
    IN  <<SubSeq(text, 1, i - 1), SubSeq(text, i + 1, Len(text))>>

\* A run of letters
IsAtom(text) == text # <<>> /\ \A i \in DOMAIN text : text[i] = "a"

\* django.core.validators.validate_email on this alphabet: a user part of
\* atoms joined by dots, an "@", a domain of labels joined by dots whose
\* last label has two characters or more.
validate_email(text) ==
    /\ text # <<>>
    /\ \E i \in DOMAIN text : text[i] = "@"
    /\ LET user_part == rsplit_at(text)[1]
           domain_part == rsplit_at(text)[2]
           atoms == split(user_part, ".")
           labels == split(domain_part, ".")
       IN  /\ \A i \in DOMAIN atoms : IsAtom(atoms[i])
           /\ Len(labels) >= 2
           /\ \A i \in DOMAIN labels : IsAtom(labels[i])
           /\ Len(labels[Len(labels)]) >= 2

\* to_python that forgets to strip the pieces
MultiEmailField_to_python_unstripped(value) ==
    IF ~value.given \/ value.text = <<>> THEN <<>>
    ELSE split(value.text, ",")

\* MultiEmailField.to_python: value is [given, text], given FALSE for None
MultiEmailField_to_python(value) ==
    IF ~value.given \/ value.text = <<>> THEN <<>>
    ELSE [i \in DOMAIN split(value.text, ",") |-> strip(split(value.text, ",")[i])]

\* MultiEmailField.validate: Field.validate (required), then every address;
\* the error code, "" when there is none
MultiEmailField_validate(value, required) ==
    IF value = <<>> /\ required THEN "required"
    ELSE IF \E i \in DOMAIN value : ~validate_email(value[i]) THEN "invalid"
    ELSE ""

\* Field.clean: to_python, validate (run_validators has nothing to run)
MultiEmailField_clean(value, required) ==
    LET v == MultiEmailField_to_python(value)
        code == MultiEmailField_validate(v, required)
    IN  [valid |-> code = "", code |-> code, value |-> v]

\* TeamInviteForm.to and EventInviteEmailForm.emails: required is left at
\* its default
TeamInviteForm_to_required == TRUE
EventInviteEmailForm_emails_required == TRUE

InviteForms == {"TeamInviteForm", "EventInviteEmailForm"}

invite_required(form) ==
    CASE form = "TeamInviteForm" -> TeamInviteForm_to_required
      [] form = "EventInviteEmailForm" -> EventInviteEmailForm_emails_required

(***************************************************************************)
(* The confirmation forms.  A form is the sequence of its fields; posted   *)
(* data gives each field name a value or leaves it out ("absent").         *)
(***************************************************************************)
Field(name, type, required) == [name |-> name, type |-> type, required |-> required]

\* DeleteTeamForm with a confirm that is not required
DeleteTeamForm_optional == <<Field("confirm", "BooleanField", FALSE)>>

DeleteTeamForm == <<Field("confirm", "BooleanField", TRUE)>>
DeleteEventForm == <<Field("confirm", "BooleanField", TRUE)>>
CancelEventForm ==
    <<Field("confirm", "BooleanField", TRUE), Field("reason", "CharField", TRUE)>>
DeleteEventSeriesForm == <<Field("confirm", "BooleanField", TRUE)>>
RemoveEventPhotoForm == <<Field("confirm", "BooleanField", TRUE)>>
DeleteCommentForm == <<Field("confirm", "BooleanField", TRUE)>>
AcceptRequestToJoinOrgForm == <<Field("confirm", "BooleanField", TRUE)>>
AcceptInviteToJoinOrgForm == <<Field("confirm", "BooleanField", TRUE)>>
AcceptInviteToJoinTeamForm == <<Field("confirm", "BooleanField", TRUE)>>
AcceptRequestToJoinTeamForm == <<Field("confirm", "BooleanField", TRUE)>>
DeleteSpeakerForm == <<Field("confirm", "BooleanField", TRUE)>>
DeleteTalkForm == <<Field("confirm", "BooleanField", TRUE)>>

ConfirmationForms ==
    {"DeleteTeamForm", "DeleteEventForm", "CancelEventForm", "DeleteEventSeriesForm",
     "RemoveEventPhotoForm", "DeleteCommentForm", "AcceptRequestToJoinOrgForm",
     "AcceptInviteToJoinOrgForm", "AcceptInviteToJoinTeamForm",
     "AcceptRequestToJoinTeamForm", "DeleteSpeakerForm", "DeleteTalkForm"}

form_fields(form) ==
    CASE form = "DeleteTeamForm" -> DeleteTeamForm
      [] form = "DeleteEventForm" -> DeleteEventForm
      [] form = "CancelEventForm" -> CancelEventForm
      [] form = "DeleteEventSeriesForm" -> DeleteEventSeriesForm
      [] form = "RemoveEventPhotoForm" -> RemoveEventPhotoForm
      [] form = "DeleteCommentForm" -> DeleteCommentForm
      [] form = "AcceptRequestToJoinOrgForm" -> AcceptRequestToJoinOrgForm
      [] form = "AcceptInviteToJoinOrgForm" -> AcceptInviteToJoinOrgForm
      [] form = "AcceptInviteToJoinTeamForm" -> AcceptInviteToJoinTeamForm
      [] form = "AcceptRequestToJoinTeamForm" -> AcceptRequestToJoinTeamForm
      [] form = "DeleteSpeakerForm" -> DeleteSpeakerForm
      [] form = "DeleteTalkForm" -> DeleteTalkForm

\* What may be posted under one name
PostedValues == {"absent", "", " ", "on", "true", "false", "True", "False", "0", "1", "rain"}

\* str.lower() and str.strip() on the posted values
lower(v) == CASE v = "True" -> "true" [] v = "False" -> "false" [] OTHER -> v
strip_value(v) == IF v = " " THEN "" ELSE v

\* CheckboxInput.value_from_datadict: a name left out is False; 'true' and
\* 'false' in any case are the booleans; anything else is its truth value.
CheckboxInput_value_from_datadict(v) ==
    IF v = "absent" THEN FALSE
    ELSE IF lower(v) = "true" THEN TRUE
    ELSE IF lower(v) = "false" THEN FALSE
    ELSE v # ""

\* BooleanField.clean on the widget's boolean: required rejects False
BooleanField_clean(v, required) ==
    LET value == CheckboxInput_value_from_datadict(v)
    IN  [valid |-> value \/ ~required, checked |-> value]

\* CharField.clean: the text stripped; required rejects none and ''
CharField_clean(v, required) ==
    LET value == IF v = "absent" THEN "" ELSE strip_value(v)
    IN  [valid |-> value # "" \/ ~required, text |-> value]

\* BaseForm.full_clean of a confirmation form: the names in error and the
\* cleaned values of the rest
field_valid(f, data) ==
    IF f.type = "BooleanField" THEN BooleanField_clean(data[f.name], f.required).valid
    ELSE CharField_clean(data[f.name], f.required).valid

confirmation_full_clean(form, data) ==
    LET fields == form_fields(form)
        errors == {fields[i].name : i \in {j \in DOMAIN fields : ~field_valid(fields[j], data)}}
    IN  [op |-> "full_clean", errors |-> errors, is_valid |-> errors = {}]

(***************************************************************************)
(* The plain forms on their own                                            *)
(***************************************************************************)
\* POST of an invitation form
PostInvite ==
    /\ call = Idle
    /\ \E form \in InviteForms, given \in BOOLEAN, text \in TextsOf(MaxChunks) :
         /\ given \/ text = <<>>
         /\ call' = [op |-> "post_invite", form |-> form, required |-> invite_required(form),
                     value |-> [given |-> given, text |-> text]]
         /\ result' = MultiEmailField_clean([given |-> given, text |-> text],
                                            invite_required(form))
    /\ UNCHANGED current_tz

\* A MultiEmailField that is not required cleans a value
CleanOptionalEmails ==
    /\ call = Idle
    /\ \E given \in BOOLEAN, text \in TextsOf(MaxChunks) :
         /\ given \/ text = <<>>
         /\ call' = [op |-> "clean_emails", form |-> "", required |-> FALSE,
                     value |-> [given |-> given, text |-> text]]
         /\ result' = MultiEmailField_clean([given |-> given, text |-> text], FALSE)
    /\ UNCHANGED current_tz

\* POST of a confirmation form
PostConfirmation ==
    /\ call = Idle
    /\ \E form \in ConfirmationForms, confirm \in PostedValues, reason \in PostedValues :
         LET data == [confirm |-> confirm, reason |-> reason]
         IN  /\ call' = [op |-> "post_confirmation", form |-> form, data |-> data]
             /\ result' = confirmation_full_clean(form, data)
    /\ UNCHANGED current_tz

FormInit ==
    /\ current_tz = "UTC"
    /\ call = Idle
    /\ result = Idle

FormNext ==
    \/ PostInvite
    \/ CleanOptionalEmails
    \/ PostConfirmation
    \/ Finish

FormSpec == FormInit /\ [][FormNext]_vars

(***************************************************************************)
(* Properties of the plain forms                                           *)
(***************************************************************************)
CommaPositions(text) == {i \in DOMAIN text : text[i] = ","}

\* The i-th of the pieces the commas cut the text into, by position
NthPiece(text, i) ==
    LET commas == CommaPositions(text)
        nth(k) == CHOOSE c \in commas : Cardinality({d \in commas : d < c}) = k - 1
        start == IF i = 1 THEN 0 ELSE nth(i - 1)
        stop == IF i = Cardinality(commas) + 1 THEN Len(text) + 1 ELSE nth(i)
    IN  SubSeq(text, start + 1, stop - 1)

\* piece is text without the blanks around it
IsStripOf(piece, text) ==
    /\ piece = <<>> \/ (piece[1] # " " /\ piece[Len(piece)] # " ")
    /\ \E a \in 0..Len(text) :
         /\ a + Len(piece) <= Len(text)
         /\ SubSeq(text, a + 1, a + Len(piece)) = piece
         /\ \A i \in (1..a) \cup ((a + Len(piece) + 1)..Len(text)) : text[i] = " "

\* C2: no input cleans to the empty list, rejected exactly when the field
\* is required; any other input cleans to its comma-separated pieces in
\* order, each stripped, and is accepted exactly when every piece is a
\* valid address.
C2_MultiEmailField ==
    call.op \in {"post_invite", "clean_emails"}
    => IF ~call.value.given \/ call.value.text = <<>>
         THEN /\ result.value = <<>>
              /\ result.valid <=> ~call.required
         ELSE /\ Len(result.value) = Cardinality(CommaPositions(call.value.text)) + 1
              /\ \A i \in DOMAIN result.value :
                   IsStripOf(result.value[i], NthPiece(call.value.text, i))
              /\ result.valid <=> \A i \in DOMAIN result.value : validate_email(result.value[i])

\* C2 happens: two addresses with a blank between them are accepted as two
\* stripped pieces.
C2_Witness ==
    /\ call.op = "post_invite"
    /\ result.valid
    /\ Len(result.value) = 2
    /\ \E i \in DOMAIN call.value.text : call.value.text[i] = " "

\* One empty piece after a trailing comma rejects the field.
TrailingCommaRejects ==
    (call.op \in {"post_invite", "clean_emails"} /\ call.value.text # <<>>
       /\ call.value.text[Len(call.value.text)] = ",")
    => ~result.valid

AbsentOrFalse == {"absent", "false", "False"}

\* C3: a confirmation form is valid only with confirm posted as checked;
\* with confirm absent or false it is invalid with an error on confirm;
\* CancelEventForm is invalid too when reason is empty.
C3_ConfirmationNeedsCheckedBox ==
    call.op = "post_confirmation"
    => /\ result.is_valid => call.data.confirm \notin AbsentOrFalse \cup {""}
       /\ call.data.confirm \in AbsentOrFalse => "confirm" \in result.errors
       /\ (call.form = "CancelEventForm" /\ call.data.reason \in {"absent", ""})
            => ~result.is_valid

\* C3 happens: a cancellation confirmed without a reason is refused for the
\* reason alone.
C3_Witness ==
    /\ call.op = "post_confirmation"
    /\ call.form = "CancelEventForm"
    /\ call.data.confirm = "on"
    /\ call.data.reason = ""
    /\ result.errors = {"reason"}

(***************************************************************************)
(* URL dispatch (get_together/urls.py).  A request path is its segments    *)
(* and whether it ends in a slash; a route is a sequence of literal        *)
(* segments and converters.                                                *)
(***************************************************************************)
MaxSegments == 3

Lit(text) == [kind |-> "lit", text |-> text]
IntConv(arg) == [kind |-> "int", text |-> arg]
StrConv(arg) == [kind |-> "str", text |-> arg]

\* path(route, view, name=name); name "" when none is given
Path(route, view, name) == [route |-> route, include |-> FALSE, view |-> view, name |-> name]
\* path(route, include(urlconf)) and path(route, admin.site.urls)
Include(route, urlconf) == [route |-> route, include |-> TRUE, view |-> urlconf, name |-> ""]

route_home == Path(<<>>, "views.home", "home")
route_admin == Include(<<Lit("admin")>>, "admin.site.urls")
route_searchables == Path(<<Lit("searchables")>>, "event_views.searchable_list", "")
route_api_places == Path(<<Lit("api"), Lit("places")>>, "event_views.places_list", "")
route_api_countries == Path(<<Lit("api"), Lit("countries")>>, "event_views.country_list", "")
route_api_spr == Path(<<Lit("api"), Lit("spr")>>, "event_views.spr_list", "")
route_api_cities == Path(<<Lit("api"), Lit("cities")>>, "event_views.city_list", "")
route_events == Path(<<Lit("events")>>, "views.events_list", "events")
route_create_team == Path(<<Lit("create-team")>>, "views.create_team", "create-team")
route_teams == Path(<<Lit("teams")>>, "views.teams_list", "teams")

\* show-team registered with the view of the line below it
route_show_team_wrong_view ==
    Path(<<Lit("team"), IntConv("team_id")>>, "views.create_event", "show-team")

route_show_team == Path(<<Lit("team"), IntConv("team_id")>>, "views.show_team", "show-team")
route_create_event ==
    Path(<<Lit("team"), IntConv("team_id"), Lit("create-event")>>, "views.create_event",
         "create-event")
route_show_event ==
    Path(<<Lit("events"), IntConv("event_id"), StrConv("event_slug")>>, "views.show_event",
         "show-event")
route_places == Path(<<Lit("places")>>, "views.places_list", "places")

\* create-place registered under the route of the line above it
route_create_place_same_route == Path(<<Lit("places")>>, "views.create_place", "create-place")

route_create_place == Path(<<Lit("create-place")>>, "views.create_place", "create-place")
route_oauth == Include(<<Lit("oauth")>>, "social_django.urls")

urlpatterns ==
    <<route_home, route_admin, route_searchables, route_api_places, route_api_countries,
      route_api_spr, route_api_cities, route_events, route_create_team, route_teams,
      route_show_team, route_create_event, route_show_event, route_places,
      route_create_place, route_oauth>>

\* The int converter's [0-9]+; the str converter takes any segment.
IsInt(seg) == seg \in {"1", "42"}

segment_matches(pat, seg) ==
    CASE pat.kind = "lit" -> seg = pat.text
      [] pat.kind = "int" -> IsInt(seg)
      [] pat.kind = "str" -> TRUE

\* A path() route matches the whole path, slash included; an include
\* matches a prefix that ends in a slash.
route_matches(entry, p) ==
    /\ Len(p.segs) >= Len(entry.route)
    /\ \A i \in DOMAIN entry.route : segment_matches(entry.route[i], p.segs[i])
    /\ IF entry.include
         THEN Len(p.segs) > Len(entry.route) \/ p.slash
         ELSE Len(p.segs) = Len(entry.route) /\ (p.slash \/ entry.route = <<>>)

\* What the converters captured
captured(entry, p) ==
    {<<entry.route[i].text, p.segs[i]>> :
        i \in {j \in DOMAIN entry.route : entry.route[j].kind # "lit"}}

matching(p) == {i \in DOMAIN urlpatterns : route_matches(urlpatterns[i], p)}

\* URLResolver.resolve: the first entry that matches, or Resolver404
resolve(p) ==
    IF matching(p) = {}
      THEN [exc |-> "Resolver404", view |-> "", kwargs |-> {}]
      ELSE LET i == CHOOSE j \in matching(p) : \A k \in matching(p) : j <= k
           IN  [exc |-> "none", view |-> urlpatterns[i].view,
                kwargs |-> captured(urlpatterns[i], p)]

\* django.urls.reverse(name, kwargs): the route of that name with the
\* converters filled in, or NoReverseMatch
reverse(name, kwargs) ==
    LET named == {i \in DOMAIN urlpatterns :
                    /\ urlpatterns[i].name = name
                    /\ {urlpatterns[i].route[j].text :
                          j \in {k \in DOMAIN urlpatterns[i].route :
                                   urlpatterns[i].route[k].kind # "lit"}} = DOMAIN kwargs}
    IN  IF named = {}
          THEN [exc |-> "NoReverseMatch", path |-> [segs |-> <<>>, slash |-> TRUE]]
          ELSE LET route == urlpatterns[CHOOSE i \in named : \A k \in named : i <= k].route
               IN  [exc |-> "none",
                    path |-> [segs |-> [j \in DOMAIN route |->
                                          IF route[j].kind = "lit" THEN route[j].text
                                          ELSE kwargs[route[j].text]],
                              slash |-> TRUE]]

(***************************************************************************)
(* Teams and their views (events/models/profiles.py, get_together/views)   *)
(***************************************************************************)
Team(id, slug, about_page) == [id |-> id, slug |-> slug, about_page |-> about_page]

Teams == {Team(id, slug, about) :
            id \in {"1", "42"}, slug \in {"a-team", "team"}, about \in {"", "about this team!"}}

\* Team.get_absolute_url
Team_get_absolute_url(team) == reverse("show-team", [team_id |-> team.id])

\* The status a view answers with, for the views a test calls; 0 stands for
\* a view that is not modelled.
view_status(view, kwargs, db) ==
    CASE view = "views.show_team" ->
            IF \E t \in db : <<"team_id", t.id>> \in kwargs THEN 200 ELSE 404
      [] view = "views.show_team_about_by_slug" ->
            IF \E t \in db : <<"team_slug", t.slug>> \in kwargs /\ t.about_page # ""
              THEN 200 ELSE 302
      [] OTHER -> 0

\* Client().get(path): resolve, call the view; no route is a 404
Client_get(p, db) ==
    LET m == resolve(p)
    IN  IF m.exc # "none" THEN [exc |-> "none", view |-> "", status |-> 404]
        ELSE [exc |-> "none", view |-> m.view, status |-> view_status(m.view, m.kwargs, db)]

\* A test: the URL by reversing, then the GET; an exception from reverse
\* ends the test.
get_reversed(r, db) ==
    IF r.exc # "none" THEN [exc |-> r.exc, view |-> "", status |-> 0]
    ELSE Client_get(r.path, db)

(***************************************************************************)
(* Requests                                                                *)
(***************************************************************************)
Segments == {"events", "team", "teams", "create-event", "places", "create-place",
             "api", "oauth", "admin", "login", "1", "42", "a-team"}

RECURSIVE SegsOf(_)
SegsOf(n) ==
    IF n = 0 THEN {<<>>}
    ELSE LET shorter == SegsOf(n - 1)
         IN  shorter \cup {q \o <<seg>> : q \in shorter, seg \in Segments}

RequestPaths ==
    {[segs |-> q, slash |-> sl] : q \in SegsOf(MaxSegments), sl \in BOOLEAN}
    \ {[segs |-> <<>>, slash |-> FALSE]}

\* GET of any path
Get ==
    /\ call = Idle
    /\ \E p \in RequestPaths :
         /\ call' = [op |-> "get", path |-> p]
         /\ result' = [op |-> "response", matching |-> matching(p), match |-> resolve(p)]
    /\ UNCHANGED current_tz

\* TeamDisplayTests.test_show_team
TestShowTeam ==
    /\ call = Idle
    /\ \E team \in Teams :
         /\ call' = [op |-> "test_show_team", team |-> team]
         /\ result' = get_reversed(Team_get_absolute_url(team), {team})
    /\ UNCHANGED current_tz

\* TeamDisplayTests.test_show_about_team and
\* test_show_about_team_redirects_if_none
TestShowAboutTeam ==
    /\ call = Idle
    /\ \E team \in Teams :
         /\ call' = [op |-> "test_show_about_team", team |-> team]
         /\ result' = get_reversed(
                        reverse("show-team-about-by-slug", [team_slug |-> team.slug]),
                        {team})
    /\ UNCHANGED current_tz

UrlInit ==
    /\ current_tz = "UTC"
    /\ call = Idle
    /\ result = Idle

UrlNext ==
    \/ Get
    \/ TestShowTeam
    \/ TestShowAboutTeam
    \/ Finish

UrlSpec == UrlInit /\ [][UrlNext]_vars

\* C4: the about page, reached by reversing 'show-team-about-by-slug' with
\* the team's slug, answers 200 when about_page is not empty and 302 when
\* it is; the route resolves for every saved team.
C4_AboutPageStatus ==
    call.op = "test_show_about_team"
    => /\ result.exc = "none"
       /\ result.status = IF call.team.about_page # "" THEN 200 ELSE 302

UnderOAuth(p) == p.segs # <<>> /\ p.segs[1] = "oauth" /\ (Len(p.segs) > 1 \/ p.slash)

\* C6: no path matches two entries of urlpatterns, so the first match is
\* the only one whatever the order; no route name is used twice; every path
\* under 'oauth/' goes to the included OAuth URLs.
C6_DispatchIsUnambiguous ==
    /\ \A i, j \in DOMAIN urlpatterns :
         (i # j /\ urlpatterns[i].name # "") => urlpatterns[i].name # urlpatterns[j].name
    /\ call.op = "get"
       => /\ Cardinality(result.matching) <= 1
          /\ \A i \in result.matching : urlpatterns[i].view = result.match.view
          /\ UnderOAuth(call.path) => result.match.view = "social_django.urls"

\* C6 happens: 'team/1/create-event/' is matched by its own entry alone,
\* though 'team/1/' is a route too.
C6_Witness ==
    /\ call.op = "get"
    /\ call.path = [segs |-> <<"team", "1", "create-event">>, slash |-> TRUE]
    /\ Cardinality(result.matching) = 1
    /\ result.match.view = "views.create_event"

(***************************************************************************)
(* The whole program: every operation above, between requests in any order *)
(***************************************************************************)
Init == EventInit

Next ==
    \/ Activate
    \/ CreateEvent
    \/ EditEvent
    \/ ResubmitEvent
    \/ RenderTime
    \/ ResubmitTime
    \/ PostSimpleTime
    \/ RenderLookup
    \/ PostInvite
    \/ CleanOptionalEmails
    \/ PostConfirmation
    \/ Get
    \/ TestShowTeam
    \/ TestShowAboutTeam
    \/ Finish

Spec == Init /\ [][Next]_vars

====
